---- MODULE Spec2Model ----
(***************************************************************************)
(* A model of src/src/main.c: a minimal shell.  sh_loop prints a prompt,   *)
(* reads a line (sh_read_line), splits it into tokens (sh_split_line),     *)
(* runs a built-in or launches a program (sh_execute, sh_launch), frees    *)
(* the two buffers and repeats while the returned status is non-zero.      *)
(*                                                                         *)
(* Characters are one-element strings; a C string is a sequence of         *)
(* characters that ends at its first NUL.  malloc and realloc may fail at  *)
(* every call.  The forked child is a second process whose steps           *)
(* interleave with the parent's.  The program the child executes is the    *)
(* environment: it may stop, continue, exit with any code or be killed by  *)
(* a signal; signals reach the launched program only, not the shell's own  *)
(* code.  waitpid(pid, &status, WUNTRACED) is taken to succeed and to      *)
(* report one of the state changes exited, signaled and stopped.  Standard *)
(* output and standard error are modelled as written when printf, fprintf  *)
(* and perror are called.                                                  *)
(*                                                                         *)
(* Spec is the whole program on short input streams and two long lines.    *)
(* SpecRead runs sh_read_line alone on lines around every buffer capacity, *)
(* SpecSplit runs sh_split_line alone on every short line and on lines     *)
(* with token counts around every capacity of the token array;             *)
(* SpecBuffers is both of them together.  FairSpec is the whole program on *)
(* streams of one line of each kind, with the two processes scheduled      *)
(* fairly.  heap holds the state of the two blocks sh_loop frees; the      *)
(* launched program may change its own working directory, child_cwd.       *)
(***************************************************************************)
EXTENDS Integers, Sequences, FiniteSets, TLC

(* ------------------------------ bounds --------------------------------- *)

\* Number of newline-terminated lines on standard input.
MaxLines == 2
\* Length of the lines the tokenizer is applied to exhaustively.
MaxLineLen == 3
\* Number of buffer growths covered by the long reader inputs.
MaxGrow == 2
\* Number of token-array growths covered by the long tokenizer inputs.
MaxTokGrow == 2
\* Number of times a launched program is stopped.
MaxStops == 2

(* --------------------------- program constants ------------------------- *)

SH_TOKEN_BUFFER_SIZE == 64
SH_READ_LINE_BUFFER_SIZE == 1024
EXIT_SUCCESS == 0
EXIT_FAILURE == 1

NUL == "NUL"
NL == "\n"
SP == " "
TAB == "\t"
CR == "\r"
BEL == "BEL"

\* The NULL pointer: no token is equal to it.
NULL == <<"(null)">>

\* Mutant: the delimiters without carriage return and bell.
SH_TOKEN_DELIMITER_Short == {SP, TAB, NL}

SH_TOKEN_DELIMITER == {SP, TAB, CR, NL, BEL}

builtin_str == << <<"c", "d">>, <<"h", "e", "l", "p">>, <<"e", "x", "i", "t">> >>

builtin_func == <<"sh_cd", "sh_help", "sh_exit">>

sh_num_builtins == Len(builtin_str)

(* ------------------------------ C strings ------------------------------ *)

\* The least element of a non-empty set of integers.
Min(S) == CHOOSE i \in S : \A j \in S : i <= j

\* The C string held in s: the characters before its first NUL.
CStr(s) ==
    LET nul == { i \in 1..Len(s) : s[i] = NUL }
    IN  IF nul = {} THEN s ELSE SubSeq(s, 1, Min(nul) - 1)

\* Mutant: strncmp(a, b, strlen(b)) == 0, a comparison of prefixes.
StrEq_Prefix(a, b) ==
    /\ Len(CStr(a)) >= Len(CStr(b))
    /\ SubSeq(CStr(a), 1, Len(CStr(b))) = CStr(b)

\* strcmp(a, b) == 0 on two C strings.
StrEq(a, b) == CStr(a) = CStr(b)

\* The content of an allocated cell that was never written.
UNINIT == "?"

\* buf with c stored at the 0-based index i.  buf holds the cells up to the
\* last one written; a cell that a store skips stays uninitialized.
Store(buf, i, c) ==
    IF i < Len(buf)
    THEN [buf EXCEPT ![i + 1] = c]
    ELSE buf \o [k \in 1..(i - Len(buf)) |-> UNINIT] \o <<c>>

\* strspn: s without its leading delimiters.
SkipDelims(s) ==
    LET other == { i \in 1..Len(s) : s[i] \notin SH_TOKEN_DELIMITER }
    IN  IF other = {} THEN <<>> ELSE SubSeq(s, Min(other), Len(s))

\* strcspn: the leading characters of s that are not delimiters.
TokenRun(s) ==
    LET delim == { i \in 1..Len(s) : s[i] \in SH_TOKEN_DELIMITER }
    IN  IF delim = {} THEN s ELSE SubSeq(s, 1, Min(delim) - 1)

\* s without its first n characters.
Drop(s, n) == IF n >= Len(s) THEN <<>> ELSE SubSeq(s, n + 1, Len(s))

\* Mutant: strsep, which ends a token at every single delimiter.
strtok_NoSkip(s) ==
    IF s = <<>>
    THEN [token |-> NULL, save |-> <<>>]
    ELSE [token |-> TokenRun(s), save |-> Drop(s, Len(TokenRun(s)) + 1)]

\* strtok(_, SH_TOKEN_DELIMITER) continuing at the C string s: the next
\* token (NULL when only delimiters remain) and the saved position, which is
\* behind the delimiter that strtok overwrote with NUL.  The string behind
\* the leading delimiters is taken once, as t.
strtok(s) ==
    LET scan(t) ==
            IF t = <<>>
            THEN [token |-> NULL, save |-> <<>>]
            ELSE [token |-> TokenRun(t), save |-> Drop(t, Len(TokenRun(t)) + 1)]
    IN  CHOOSE r \in { scan(t) : t \in {SkipDelims(s)} } : TRUE

(* ------------------------------- state --------------------------------- *)

VARIABLES
    stdin,          \* characters not yet read from standard input
    typed,          \* history: what getchar returned in this sh_read_line
    stdout,         \* the pieces of text written to standard output, in order
    stderr,         \* the lines written to standard error, in order
    pc,             \* where the shell process is
    buffer,         \* sh_read_line: the written cells of buffer
    rl_buffer_size, \* sh_read_line: buffer_size
    rl_position,    \* sh_read_line: position
    line,           \* sh_loop: line
    tokens,         \* sh_split_line: the written cells of tokens
    sl_buffer_size, \* sh_split_line: buffer_size
    sl_position,    \* sh_split_line: position
    token,          \* sh_split_line: token
    save,           \* strtok's saved position in line
    args,           \* sh_loop: args
    status,         \* sh_loop: status
    cwd,            \* the shell's working directory
    heap,           \* the blocks of line and args: none, live or freed
    child,          \* the state of the forked child process
    child_cwd,      \* the working directory of the child, <<>> without one
    child_status,   \* the exit code or the signal of the terminated child
    stops,          \* how often the launched program was stopped
    stop_pending,   \* the child stopped and waitpid has not reported it yet
    wstatus,        \* sh_launch: what waitpid stored in status
    exit_code,      \* the exit status of the shell process, -1 while it runs
    log             \* history: the operations performed, in order

vars ==
    <<stdin, typed, stdout, stderr, pc, buffer, rl_buffer_size, rl_position, line,
      tokens, sl_buffer_size, sl_position, token, save, args, status, cwd,
      heap, child, child_cwd, child_status, stops, stop_pending, wstatus,
      exit_code, log>>

in_vars == <<stdin, typed>>
reader_vars == <<buffer, rl_buffer_size, rl_position>>
split_vars == <<tokens, sl_buffer_size, sl_position, token, save>>
child_vars == <<child, child_cwd, child_status, stops, stop_pending, wstatus>>
io_vars == <<stdout, stderr>>

(* ------------------------------- inputs -------------------------------- *)

CommandLines ==
    { <<>>,
      <<TAB, SP, CR>>,
      <<"c", "d">>,
      <<"c", "d", SP, "d", SP, "e">>,
      <<"h", "e", "l", "p">>,
      <<"h", "e", "l", "p", TAB, "c", "d">>,
      <<"e", "x", "i", "t">>,
      <<SP, "e", "x", "i", "t", TAB, "x">>,
      <<"c", "d", "x">>,
      <<"E", "x", "i", "t", NUL, "x">> }

\* What may follow the last newline: nothing, or an unterminated line.
Tails == { <<>>, <<"l", "s">> }

RECURSIVE Join(_)
\* The lines of ls, each followed by a newline.
Join(ls) ==
    IF ls = <<>> THEN <<>> ELSE Head(ls) \o <<NL>> \o Join(Tail(ls))

\* A line of n blanks, and a line of n one-letter tokens.
Blanks(n) == [i \in 1..n |-> SP]
Words(n) == [i \in 1..(2 * n - 1) |-> IF i % 2 = 1 THEN "a" ELSE SP]

\* Two lines that fill the initial capacity of the line buffer and of the
\* token array.
LongLines == { Blanks(SH_READ_LINE_BUFFER_SIZE), Words(SH_TOKEN_BUFFER_SIZE) }

Streams ==
    { Join(ls) \o t :
        ls \in UNION { [1..n -> CommandLines] : n \in 0..MaxLines },
        t \in Tails }
    \cup { l \o <<NL>> : l \in LongLines }

(* ----------------------------- initial state --------------------------- *)

\* The state of the process when main calls sh_loop, reading the stream s.
Start(s) ==
    /\ stdin = s
    /\ typed = <<>>
    /\ stdout = <<>>
    /\ stderr = <<>>
    /\ pc = "prompt"
    /\ buffer = <<>>
    /\ rl_buffer_size = 0
    /\ rl_position = 0
    /\ line = <<>>
    /\ tokens = <<>>
    /\ sl_buffer_size = 0
    /\ sl_position = 0
    /\ token = NULL
    /\ save = <<>>
    /\ args = <<>>
    /\ status = 1
    /\ cwd = <<"/">>
    /\ heap = [line |-> "none", args |-> "none"]
    /\ child = "none"
    /\ child_cwd = <<>>
    /\ child_status = 0
    /\ stops = 0
    /\ stop_pending = FALSE
    /\ wstatus = "none"
    /\ exit_code = -1
    /\ log = <<>>

Init == \E s \in Streams : Start(s)

(* ------------------------------- sh_loop ------------------------------- *)

\* exit(code): the process ends at once.
Exit(code) ==
    /\ pc' = "exited"
    /\ exit_code' = code

\* Mutant: the allocation error ends the process with EXIT_SUCCESS.
AllocationError_Success ==
    /\ stderr' = Append(stderr, "sh: allocation error")
    /\ log' = log \o <<"malloc_failed", "stderr">>
    /\ Exit(EXIT_SUCCESS)

\* fprintf(stderr, "sh: allocation error\n"); exit(EXIT_FAILURE);
AllocationError ==
    /\ stderr' = Append(stderr, "sh: allocation error")
    /\ log' = log \o <<"malloc_failed", "stderr">>
    /\ Exit(EXIT_FAILURE)

\* printf("> ");
Prompt ==
    /\ pc = "prompt"
    /\ stdout' = Append(stdout, <<"> ">>)
    /\ log' = Append(log, "prompt")
    /\ pc' = "read_line"
    /\ UNCHANGED <<heap, in_vars, stderr, reader_vars, line, split_vars, args, status,
                   cwd, child_vars, exit_code>>

(* ----------------------------- sh_read_line ---------------------------- *)

\* buffer = malloc(sizeof(char) * buffer_size) succeeds.
ReadLineAlloc ==
    /\ pc = "read_line"
    /\ rl_buffer_size' = SH_READ_LINE_BUFFER_SIZE
    /\ rl_position' = 0
    /\ buffer' = <<>>
    /\ typed' = <<>>
    /\ heap' = [heap EXCEPT !.line = "live"]
    /\ pc' = "getchar"
    /\ UNCHANGED <<stdin, io_vars, line, split_vars, args, status, cwd,
                   child_vars, exit_code, log>>

\* buffer = malloc(...) returns NULL.
ReadLineAllocFail ==
    /\ pc = "read_line"
    /\ AllocationError
    /\ UNCHANGED <<heap, in_vars, stdout, reader_vars, line, split_vars, args, status,
                   cwd, child_vars>>

\* Mutant: end-of-stream ends the line as a newline does.
ReadEOF_ReturnsLine ==
    /\ pc = "getchar"
    /\ stdin = <<>>
    /\ buffer' = Store(buffer, rl_position, NUL)
    /\ line' = buffer'
    /\ pc' = "split_line"
    /\ UNCHANGED <<heap, in_vars, io_vars, rl_buffer_size, rl_position, split_vars,
                   args, status, cwd, child_vars, exit_code, log>>

\* c = getchar() returns EOF: exit(EXIT_SUCCESS).
ReadEOF ==
    /\ pc = "getchar"
    /\ stdin = <<>>
    /\ Exit(EXIT_SUCCESS)
    /\ log' = Append(log, "eof")
    /\ UNCHANGED <<heap, in_vars, io_vars, reader_vars, line, split_vars, args, status,
                   cwd, child_vars>>

\* c == '\n': buffer[position] = '\0'; return buffer;
ReadNewline ==
    /\ pc = "getchar"
    /\ stdin # <<>>
    /\ Head(stdin) = NL
    /\ stdin' = Tail(stdin)
    /\ typed' = Append(typed, Head(stdin))
    /\ buffer' = Store(buffer, rl_position, NUL)
    /\ line' = buffer'
    /\ pc' = "split_line"
    /\ UNCHANGED <<heap, io_vars, rl_buffer_size, rl_position, split_vars, args,
                   status, cwd, child_vars, exit_code, log>>

\* Mutant: the buffer is grown only when position exceeds buffer_size.
ReadChar_GrowsLate ==
    /\ pc = "getchar"
    /\ stdin # <<>>
    /\ Head(stdin) # NL
    /\ rl_position + 1 <= rl_buffer_size
    /\ stdin' = Tail(stdin)
    /\ typed' = Append(typed, Head(stdin))
    /\ buffer' = Store(buffer, rl_position, Head(stdin))
    /\ rl_position' = rl_position + 1
    /\ UNCHANGED <<heap, io_vars, pc, rl_buffer_size, line, split_vars, args, status,
                   cwd, child_vars, exit_code, log>>

\* The character read is stored and does not fill the buffer.
ReadChar ==
    /\ pc = "getchar"
    /\ stdin # <<>>
    /\ Head(stdin) # NL
    /\ rl_position + 1 < rl_buffer_size
    /\ stdin' = Tail(stdin)
    /\ typed' = Append(typed, Head(stdin))
    /\ buffer' = Store(buffer, rl_position, Head(stdin))
    /\ rl_position' = rl_position + 1
    /\ UNCHANGED <<heap, io_vars, pc, rl_buffer_size, line, split_vars, args, status,
                   cwd, child_vars, exit_code, log>>

\* Mutant: the larger buffer is a new allocation, the content is not copied.
ReadCharGrow_NoCopy ==
    /\ pc = "getchar"
    /\ stdin # <<>>
    /\ Head(stdin) # NL
    /\ rl_position + 1 >= rl_buffer_size
    /\ stdin' = Tail(stdin)
    /\ typed' = Append(typed, Head(stdin))
    /\ buffer' = [k \in 1..(rl_position + 1) |-> UNINIT]
    /\ rl_position' = rl_position + 1
    /\ rl_buffer_size' = rl_buffer_size + SH_READ_LINE_BUFFER_SIZE
    /\ UNCHANGED <<heap, io_vars, pc, line, split_vars, args, status, cwd,
                   child_vars, exit_code, log>>

\* The character read fills the buffer and realloc grows it.
ReadCharGrow ==
    /\ pc = "getchar"
    /\ stdin # <<>>
    /\ Head(stdin) # NL
    /\ rl_position + 1 >= rl_buffer_size
    /\ stdin' = Tail(stdin)
    /\ typed' = Append(typed, Head(stdin))
    /\ buffer' = Store(buffer, rl_position, Head(stdin))
    /\ rl_position' = rl_position + 1
    /\ rl_buffer_size' = rl_buffer_size + SH_READ_LINE_BUFFER_SIZE
    /\ UNCHANGED <<heap, io_vars, pc, line, split_vars, args, status, cwd,
                   child_vars, exit_code, log>>

\* The character read fills the buffer and realloc returns NULL.
ReadCharGrowFail ==
    /\ pc = "getchar"
    /\ stdin # <<>>
    /\ Head(stdin) # NL
    /\ rl_position + 1 >= rl_buffer_size
    /\ stdin' = Tail(stdin)
    /\ typed' = Append(typed, Head(stdin))
    /\ rl_position' = rl_position + 1
    /\ rl_buffer_size' = rl_buffer_size + SH_READ_LINE_BUFFER_SIZE
    /\ buffer' = <<>>
    /\ AllocationError
    /\ UNCHANGED <<heap, stdout, line, split_vars, args, status, cwd, child_vars>>

(* ----------------------------- sh_split_line --------------------------- *)

\* tokens = malloc(buffer_size * sizeof(char *)) succeeds;
\* token = strtok(line, SH_TOKEN_DELIMITER);
SplitLineAlloc ==
    /\ pc = "split_line"
    /\ sl_buffer_size' = SH_TOKEN_BUFFER_SIZE
    /\ sl_position' = 0
    /\ tokens' = <<>>
    /\ \E str \in {CStr(line)} : \E first \in {strtok(str)} :
          token' = first.token /\ save' = first.save
    /\ heap' = [heap EXCEPT !.args = "live"]
    /\ pc' = "split_loop"
    /\ UNCHANGED <<in_vars, io_vars, reader_vars, line, args, status, cwd,
                   child_vars, exit_code, log>>

\* tokens = malloc(...) returns NULL.
SplitLineAllocFail ==
    /\ pc = "split_line"
    /\ AllocationError
    /\ UNCHANGED <<heap, in_vars, stdout, reader_vars, line, split_vars, args, status,
                   cwd, child_vars>>

\* The token is stored and does not fill the array; the next one is taken.
SplitToken ==
    /\ pc = "split_loop"
    /\ token # NULL
    /\ sl_position + 1 < sl_buffer_size
    /\ tokens' = Store(tokens, sl_position, token)
    /\ sl_position' = sl_position + 1
    /\ token' = strtok(save).token
    /\ save' = strtok(save).save
    /\ UNCHANGED <<heap, in_vars, io_vars, pc, reader_vars, line, sl_buffer_size, args,
                   status, cwd, child_vars, exit_code, log>>

\* The token fills the array and realloc grows it; the next one is taken.
SplitTokenGrow ==
    /\ pc = "split_loop"
    /\ token # NULL
    /\ sl_position + 1 >= sl_buffer_size
    /\ tokens' = Store(tokens, sl_position, token)
    /\ sl_position' = sl_position + 1
    /\ sl_buffer_size' = sl_buffer_size + SH_TOKEN_BUFFER_SIZE
    /\ token' = strtok(save).token
    /\ save' = strtok(save).save
    /\ UNCHANGED <<heap, in_vars, io_vars, pc, reader_vars, line, args, status, cwd,
                   child_vars, exit_code, log>>

\* The token fills the array and realloc returns NULL.
SplitTokenGrowFail ==
    /\ pc = "split_loop"
    /\ token # NULL
    /\ sl_position + 1 >= sl_buffer_size
    /\ tokens' = <<>>
    /\ sl_position' = sl_position + 1
    /\ sl_buffer_size' = sl_buffer_size + SH_TOKEN_BUFFER_SIZE
    /\ AllocationError
    /\ UNCHANGED <<heap, in_vars, stdout, reader_vars, line, token, save, args, status,
                   cwd, child_vars>>

\* token == NULL: tokens[position] = NULL; return tokens;
SplitReturn ==
    /\ pc = "split_loop"
    /\ token = NULL
    /\ tokens' = Store(tokens, sl_position, NULL)
    /\ args' = tokens'
    /\ pc' = "execute"
    /\ UNCHANGED <<heap, in_vars, io_vars, reader_vars, line, sl_buffer_size,
                   sl_position, token, save, status, cwd, child_vars, exit_code,
                   log>>

(* ------------------------------ sh_execute ----------------------------- *)

\* The index of the first built-in whose name strcmp finds equal to name,
\* 0 when the loop over the built-ins ends without a match.
BuiltinIndex(name) ==
    LET m == { i \in 1..sh_num_builtins : StrEq(name, builtin_str[i]) }
    IN  IF m = {} THEN 0 ELSE Min(m)

\* The strcmp calls of the loop over the built-ins, as log entries.
Lookups(name) ==
    LET i == BuiltinIndex(name)
    IN  [k \in 1..(IF i = 0 THEN sh_num_builtins ELSE i) |-> "strcmp"]

\* The handler sh_execute calls for a non-empty argument vector.
Handler(a) ==
    IF BuiltinIndex(a[1]) = 0 THEN "sh_launch" ELSE builtin_func[BuiltinIndex(a[1])]

\* args[0] == NULL: an empty command was entered; return 1.
ExecuteEmpty ==
    /\ pc = "execute"
    /\ args[1] = NULL
    /\ status' = 1
    /\ pc' = "free"
    /\ UNCHANGED <<heap, in_vars, io_vars, reader_vars, line, split_vars, args, cwd,
                   child_vars, exit_code, log>>

\* Mutant: cd without an argument silently changes to the home directory.
CdNoArgument_Home ==
    /\ pc = "execute"
    /\ args[1] # NULL
    /\ Handler(args) = "sh_cd"
    /\ args[2] = NULL
    /\ cwd' = <<"~">>
    /\ log' = log \o Lookups(args[1]) \o <<"sh_cd", "chdir">>
    /\ status' = 1
    /\ pc' = "free"
    /\ UNCHANGED <<heap, in_vars, io_vars, reader_vars, line, split_vars, args,
                   child_vars, exit_code>>

\* sh_cd without args[1]: the usage diagnostic; return 1.
CdNoArgument ==
    /\ pc = "execute"
    /\ args[1] # NULL
    /\ Handler(args) = "sh_cd"
    /\ args[2] = NULL
    /\ stderr' = Append(stderr, "sh: expected argument to \"cd\"")
    /\ log' = log \o Lookups(args[1]) \o <<"sh_cd", "stderr">>
    /\ status' = 1
    /\ pc' = "free"
    /\ UNCHANGED <<heap, in_vars, stdout, reader_vars, line, split_vars, args, cwd,
                   child_vars, exit_code>>

\* sh_cd: chdir(args[1]) succeeds; return 1.
CdSuccess ==
    /\ pc = "execute"
    /\ args[1] # NULL
    /\ Handler(args) = "sh_cd"
    /\ args[2] # NULL
    /\ cwd' = args[2]
    /\ log' = log \o Lookups(args[1]) \o <<"sh_cd", "chdir">>
    /\ status' = 1
    /\ pc' = "free"
    /\ UNCHANGED <<heap, in_vars, io_vars, reader_vars, line, split_vars, args,
                   child_vars, exit_code>>

\* Mutant: the result of chdir is not tested, a failure is not reported.
CdFailure_Silent ==
    /\ pc = "execute"
    /\ args[1] # NULL
    /\ Handler(args) = "sh_cd"
    /\ args[2] # NULL
    /\ log' = log \o Lookups(args[1]) \o <<"sh_cd", "chdir", "chdir_failed">>
    /\ status' = 1
    /\ pc' = "free"
    /\ UNCHANGED <<heap, in_vars, io_vars, reader_vars, line, split_vars, args,
                   cwd, child_vars, exit_code>>

\* sh_cd: chdir(args[1]) fails; perror("sh"); return 1.
CdFailure ==
    /\ pc = "execute"
    /\ args[1] # NULL
    /\ Handler(args) = "sh_cd"
    /\ args[2] # NULL
    /\ stderr' = Append(stderr, "sh: chdir failed")
    /\ log' = log \o Lookups(args[1])
                 \o <<"sh_cd", "chdir", "chdir_failed", "stderr">>
    /\ status' = 1
    /\ pc' = "free"
    /\ UNCHANGED <<heap, in_vars, stdout, reader_vars, line, split_vars, args, cwd,
                   child_vars, exit_code>>

\* Mutant: the loop over the built-ins starts at the second name.
HelpText_SkipsFirst ==
    << <<"SH">>, <<"Type program names and arguments, and hit enter.">>,
       <<"The following are built in:">> >>
    \o [i \in 1..(sh_num_builtins - 1) |-> <<"  ">> \o builtin_str[i + 1]]
    \o << <<"Use the man command for information on other programs.">> >>

\* The lines sh_help prints: the banner, the built-in names, the last line.
HelpText ==
    << <<"SH">>, <<"Type program names and arguments, and hit enter.">>,
       <<"The following are built in:">> >>
    \o [i \in 1..sh_num_builtins |-> <<"  ">> \o builtin_str[i]]
    \o << <<"Use the man command for information on other programs.">> >>

\* sh_help: print the help text; return 1.
Help ==
    /\ pc = "execute"
    /\ args[1] # NULL
    /\ Handler(args) = "sh_help"
    /\ stdout' = stdout \o HelpText
    /\ log' = log \o Lookups(args[1]) \o <<"sh_help", "stdout">>
    /\ status' = 1
    /\ pc' = "free"
    /\ UNCHANGED <<heap, in_vars, stderr, reader_vars, line, split_vars, args, cwd,
                   child_vars, exit_code>>

\* sh_exit: return 0.
ExitBuiltin ==
    /\ pc = "execute"
    /\ args[1] # NULL
    /\ Handler(args) = "sh_exit"
    /\ log' = log \o Lookups(args[1]) \o <<"sh_exit">>
    /\ status' = 0
    /\ pc' = "free"
    /\ UNCHANGED <<heap, in_vars, io_vars, reader_vars, line, split_vars, args, cwd,
                   child_vars, exit_code>>

(* ------------------------------- sh_launch ----------------------------- *)

\* pid = fork() succeeds: the child starts and the parent goes to waitpid.
Fork ==
    /\ pc = "execute"
    /\ args[1] # NULL
    /\ Handler(args) = "sh_launch"
    /\ child' = "forked"
    /\ child_cwd' = cwd
    /\ child_status' = 0
    /\ stop_pending' = FALSE
    /\ wstatus' = "none"
    /\ log' = log \o Lookups(args[1]) \o <<"sh_launch", "fork">>
    /\ pc' = "wait"
    /\ UNCHANGED <<heap, in_vars, io_vars, reader_vars, line, split_vars, args, status,
                   cwd, stops, exit_code>>

\* Mutant: the parent waits for the child although fork failed.
ForkFail_Waits ==
    /\ pc = "execute"
    /\ args[1] # NULL
    /\ Handler(args) = "sh_launch"
    /\ stderr' = Append(stderr, "sh: fork failed")
    /\ log' = log \o Lookups(args[1]) \o <<"sh_launch", "fork_failed", "stderr">>
    /\ pc' = "wait"
    /\ UNCHANGED <<heap, in_vars, stdout, reader_vars, line, split_vars, args, status,
                   cwd, child_vars, exit_code>>

\* pid < 0: perror("sh"); return 1.
ForkFail ==
    /\ pc = "execute"
    /\ args[1] # NULL
    /\ Handler(args) = "sh_launch"
    /\ stderr' = Append(stderr, "sh: fork failed")
    /\ log' = log \o Lookups(args[1]) \o <<"sh_launch", "fork_failed", "stderr">>
    /\ status' = 1
    /\ pc' = "free"
    /\ UNCHANGED <<heap, in_vars, stdout, reader_vars, line, split_vars, args, cwd,
                   child_vars, exit_code>>

\* Child: execvp(args[0], args) replaces the image of the child.
ChildExec ==
    /\ child = "forked"
    /\ child' = "running"
    /\ log' = Append(log, "child_exec")
    /\ UNCHANGED <<heap, child_cwd, in_vars, io_vars, pc, reader_vars, line, split_vars, args,
                   status, cwd, child_status, stops, stop_pending, wstatus,
                   exit_code>>

\* Child: execvp returns -1; perror("sh");
ChildExecFail ==
    /\ child = "forked"
    /\ child' = "exec_failed"
    /\ stderr' = Append(stderr, "sh: exec failed")
    /\ log' = log \o <<"child_exec_failed", "child_stderr">>
    /\ UNCHANGED <<heap, child_cwd, in_vars, stdout, pc, reader_vars, line, split_vars, args,
                   status, cwd, child_status, stops, stop_pending, wstatus,
                   exit_code>>

\* Mutant: the child does not exit after the failed execvp: it returns
\* from sh_launch into its copy of the loop, prints the prompt and reads
\* the rest of the input until its own read meets the end.
ChildExit_ReturnsToLoop ==
    /\ child = "exec_failed"
    /\ child' = "exited"
    /\ child_status' = EXIT_SUCCESS
    /\ stdout' = Append(stdout, <<"> ">>)
    /\ stdin' = <<>>
    /\ log' = log \o <<"child_return", "child_exit">>
    /\ UNCHANGED <<heap, child_cwd, typed, stderr, pc, reader_vars, line,
                   split_vars, args, status, cwd, stops, stop_pending, wstatus,
                   exit_code>>

\* Mutant: the child exits with EXIT_SUCCESS after the failed execvp.
ChildExit_Success ==
    /\ child = "exec_failed"
    /\ child' = "exited"
    /\ child_status' = EXIT_SUCCESS
    /\ log' = Append(log, "child_exit")
    /\ UNCHANGED <<heap, child_cwd, in_vars, io_vars, pc, reader_vars, line, split_vars, args,
                   status, cwd, stops, stop_pending, wstatus, exit_code>>

\* Child: exit(EXIT_FAILURE) after the failed execvp.
ChildExit ==
    /\ child = "exec_failed"
    /\ child' = "exited"
    /\ child_status' = EXIT_FAILURE
    /\ log' = Append(log, "child_exit")
    /\ UNCHANGED <<heap, child_cwd, in_vars, io_vars, pc, reader_vars, line, split_vars, args,
                   status, cwd, stops, stop_pending, wstatus, exit_code>>

\* The launched program exits with some code.
ProgramExit ==
    /\ child = "running"
    /\ \E code \in {EXIT_SUCCESS, EXIT_FAILURE} : child_status' = code
    /\ child' = "exited"
    /\ log' = Append(log, "program_exit")
    /\ UNCHANGED <<heap, child_cwd, in_vars, io_vars, pc, reader_vars, line, split_vars, args,
                   status, cwd, stops, stop_pending, wstatus, exit_code>>

\* The launched program, running or stopped, is killed by a signal.
ProgramKilled ==
    /\ child \in {"running", "stopped"}
    /\ child' = "signaled"
    /\ child_status' = 9
    /\ stop_pending' = FALSE
    /\ log' = Append(log, "program_killed")
    /\ UNCHANGED <<heap, child_cwd, in_vars, io_vars, pc, reader_vars, line, split_vars, args,
                   status, cwd, stops, wstatus, exit_code>>

\* A directory other than every directory the shell is given.
ProgramDir == <<"t", "m", "p">>

\* Mutant: the working directory is shared with the child, as it would be
\* between threads or after vfork.
ProgramChdir_Shared ==
    /\ child = "running"
    /\ child_cwd # ProgramDir
    /\ child_cwd' = ProgramDir
    /\ cwd' = ProgramDir
    /\ UNCHANGED <<heap, in_vars, io_vars, pc, reader_vars, line, split_vars,
                   args, status, child, child_status, stops, stop_pending,
                   wstatus, exit_code, log>>

\* The launched program changes its own working directory.
ProgramChdir ==
    /\ child = "running"
    /\ child_cwd # ProgramDir
    /\ child_cwd' = ProgramDir
    /\ UNCHANGED <<heap, in_vars, io_vars, pc, reader_vars, line, split_vars,
                   args, status, cwd, child, child_status, stops, stop_pending,
                   wstatus, exit_code, log>>

\* The launched program is stopped by a signal.
ProgramStop ==
    /\ child = "running"
    /\ stops < MaxStops
    /\ child' = "stopped"
    /\ stops' = stops + 1
    /\ stop_pending' = TRUE
    /\ log' = Append(log, "program_stop")
    /\ UNCHANGED <<heap, child_cwd, in_vars, io_vars, pc, reader_vars, line, split_vars, args,
                   status, cwd, child_status, wstatus, exit_code>>

\* The stopped program is continued.
ProgramCont ==
    /\ child = "stopped"
    /\ child' = "running"
    /\ stop_pending' = FALSE
    /\ log' = Append(log, "program_cont")
    /\ UNCHANGED <<heap, child_cwd, in_vars, io_vars, pc, reader_vars, line, split_vars, args,
                   status, cwd, child_status, stops, wstatus, exit_code>>

\* Mutant: a stopped child ends the wait loop.
WaitStopped_Returns ==
    /\ pc = "wait"
    /\ child = "stopped"
    /\ stop_pending
    /\ wstatus' = "stopped"
    /\ stop_pending' = FALSE
    /\ log' = Append(log, "waitpid")
    /\ status' = 1
    /\ pc' = "free"
    /\ UNCHANGED <<heap, child_cwd, in_vars, io_vars, reader_vars, line, split_vars, args, cwd,
                   child, child_status, stops, exit_code>>

\* waitpid reports the child stopped: neither WIFEXITED nor WIFSIGNALED, so
\* the do-while loop calls waitpid again.
WaitStopped ==
    /\ pc = "wait"
    /\ child = "stopped"
    /\ stop_pending
    /\ wstatus' = "stopped"
    /\ stop_pending' = FALSE
    /\ log' = Append(log, "waitpid")
    /\ UNCHANGED <<heap, child_cwd, in_vars, io_vars, pc, reader_vars, line, split_vars, args,
                   status, cwd, child, child_status, stops, exit_code>>

\* Mutant: the wait loop tests WIFEXITED only and goes on waiting for a
\* child that a signal killed.
WaitTerminated_ExitedOnly ==
    /\ pc = "wait"
    /\ child = "exited"
    /\ wstatus' = child
    /\ child_cwd' = <<>>
    /\ log' = Append(log, "waitpid")
    /\ status' = 1
    /\ pc' = "free"
    /\ UNCHANGED <<heap, in_vars, io_vars, reader_vars, line, split_vars, args, cwd,
                   child, child_status, stops, stop_pending, exit_code>>

\* Mutant: sh_launch returns the exit code of the child.
WaitTerminated_ReturnsChildStatus ==
    /\ pc = "wait"
    /\ child \in {"exited", "signaled"}
    /\ wstatus' = child
    /\ child_cwd' = <<>>
    /\ log' = Append(log, "waitpid")
    /\ status' = child_status
    /\ pc' = "free"
    /\ UNCHANGED <<heap, in_vars, io_vars, reader_vars, line, split_vars, args, cwd,
                   child, child_status, stops, stop_pending, exit_code>>

\* waitpid reports the child exited (WIFEXITED) or killed by a signal
\* (WIFSIGNALED) and reaps it: the loop ends; return 1.
WaitTerminated ==
    /\ pc = "wait"
    /\ child \in {"exited", "signaled"}
    /\ wstatus' = child
    /\ child_cwd' = <<>>
    /\ log' = Append(log, "waitpid")
    /\ status' = 1
    /\ pc' = "free"
    /\ UNCHANGED <<heap, in_vars, io_vars, reader_vars, line, split_vars, args, cwd,
                   child, child_status, stops, stop_pending, exit_code>>

(* --------------------------- sh_loop, main ----------------------------- *)

\* free(p) on a block in the state b: a live block is released; the block
\* the pointer named is gone when it was released before.
Released(b) == IF b = "live" THEN "freed" ELSE "double_free"

\* Mutant: only the line is released.
Free_LineOnly ==
    /\ pc = "free"
    /\ heap' = [heap EXCEPT !.line = Released(heap.line)]
    /\ log' = log \o <<"free_line">>
    /\ pc' = "while"
    /\ UNCHANGED <<in_vars, io_vars, reader_vars, line, split_vars, args, status,
                   cwd, child_vars, exit_code>>

\* free(line); free(args);
Free ==
    /\ pc = "free"
    /\ heap' = [line |-> Released(heap.line), args |-> Released(heap.args)]
    /\ log' = log \o <<"free_line", "free_args">>
    /\ pc' = "while"
    /\ UNCHANGED <<in_vars, io_vars, reader_vars, line, split_vars, args, status,
                   cwd, child_vars, exit_code>>

\* Mutant: the loop condition does not test status.
LoopAgain_Always ==
    /\ pc = "while"
    /\ pc' = "prompt"
    /\ UNCHANGED <<heap, in_vars, io_vars, reader_vars, line, split_vars, args, status,
                   cwd, child_vars, exit_code, log>>

\* while (status): the next iteration.
LoopAgain ==
    /\ pc = "while"
    /\ status # 0
    /\ pc' = "prompt"
    /\ UNCHANGED <<heap, in_vars, io_vars, reader_vars, line, split_vars, args, status,
                   cwd, child_vars, exit_code, log>>

\* while (status) ends; sh_loop returns and main returns EXIT_SUCCESS.
LoopEnd ==
    /\ pc = "while"
    /\ status = 0
    /\ pc' = "done"
    /\ exit_code' = EXIT_SUCCESS
    /\ UNCHANGED <<heap, in_vars, io_vars, reader_vars, line, split_vars, args, status,
                   cwd, child_vars, log>>

(* ---------------------------- specifications --------------------------- *)

Next ==
    \/ Prompt
    \/ ReadLineAlloc
    \/ ReadLineAllocFail
    \/ ReadEOF
    \/ ReadNewline
    \/ ReadChar
    \/ ReadCharGrow
    \/ ReadCharGrowFail
    \/ SplitLineAlloc
    \/ SplitLineAllocFail
    \/ SplitToken
    \/ SplitTokenGrow
    \/ SplitTokenGrowFail
    \/ SplitReturn
    \/ ExecuteEmpty
    \/ CdNoArgument
    \/ CdSuccess
    \/ CdFailure
    \/ Help
    \/ ExitBuiltin
    \/ Fork
    \/ ForkFail
    \/ ChildExec
    \/ ChildExecFail
    \/ ChildExit
    \/ ProgramExit
    \/ ProgramKilled
    \/ ProgramChdir
    \/ ProgramStop
    \/ ProgramCont
    \/ WaitStopped
    \/ WaitTerminated
    \/ Free
    \/ LoopAgain
    \/ LoopEnd

Spec == Init /\ [][Next]_vars

\* The steps of the shell process itself.
ShellNext ==
    \/ Prompt
    \/ ReadLineAlloc
    \/ ReadLineAllocFail
    \/ ReadEOF
    \/ ReadNewline
    \/ ReadChar
    \/ ReadCharGrow
    \/ ReadCharGrowFail
    \/ SplitLineAlloc
    \/ SplitLineAllocFail
    \/ SplitToken
    \/ SplitTokenGrow
    \/ SplitTokenGrowFail
    \/ SplitReturn
    \/ ExecuteEmpty
    \/ CdNoArgument
    \/ CdSuccess
    \/ CdFailure
    \/ Help
    \/ ExitBuiltin
    \/ Fork
    \/ ForkFail
    \/ WaitStopped
    \/ WaitTerminated
    \/ Free
    \/ LoopAgain
    \/ LoopEnd

\* The steps of the child that are code of sh_launch: execvp and, when it
\* fails, perror and exit.
ChildNext == ChildExec \/ ChildExecFail \/ ChildExit

\* One line for each way an iteration can go: an empty command, the three
\* built-ins, cd with arguments, and a program to launch.
FairLines ==
    { <<>>,
      <<"c", "d">>,
      <<"c", "d", SP, "d", SP, "e">>,
      <<"h", "e", "l", "p">>,
      <<"e", "x", "i", "t">>,
      <<"c", "d", "x">> }

FairStreams ==
    { Join(ls) \o t :
        ls \in UNION { [1..n -> FairLines] : n \in 0..MaxLines },
        t \in Tails }
    \cup { l \o <<NL>> : l \in LongLines }

InitFair == \E s \in FairStreams : Start(s)

\* Both processes are scheduled: the shell takes a step whenever it has one
\* (a blocked waitpid has none) and so does the child while it runs the code
\* of sh_launch.  Nothing is assumed of the launched program.
FairSpec == InitFair /\ [][Next]_vars /\ WF_vars(ShellNext) /\ WF_vars(ChildNext)

(* ------------------- sh_read_line alone, on long lines ------------------ *)

\* The characters of the long lines: letters, a delimiter and a NUL, in a
\* repeating pattern that shows a dropped, repeated or altered character.
Pattern == <<"a", "b", "c", "d", "e", SP, NUL>>

PatternLine(n) == [i \in 1..n |-> Pattern[(i % Len(Pattern)) + 1]]

\* Line lengths around every capacity the buffer takes.
ReadLengths ==
    { n \in { k * SH_READ_LINE_BUFFER_SIZE + d : k \in 0..MaxGrow, d \in -1..1 } :
        n >= 0 }

\* A long line, then end of input, or a newline and the start of a next line.
ReadStreams ==
    { PatternLine(n) \o e : n \in ReadLengths, e \in { <<>>, <<NL, "x", NL>> } }

InitRead == \E s \in ReadStreams : Start(s)

NextRead ==
    \/ Prompt
    \/ ReadLineAlloc
    \/ ReadLineAllocFail
    \/ ReadEOF
    \/ ReadNewline
    \/ ReadChar
    \/ ReadCharGrow
    \/ ReadCharGrowFail

SpecRead == InitRead /\ [][NextRead]_vars

(* ------------------------- sh_split_line alone ------------------------- *)

Alphabet == SH_TOKEN_DELIMITER \cup {"a", "b", NUL}

\* Every line of at most MaxLineLen characters of the alphabet.
ShortLines == UNION { [1..n -> Alphabet] : n \in 0..MaxLineLen }

\* A line of n one-letter tokens, alternately a and b, behind lead
\* delimiters, gap delimiters apart and followed by trail delimiters.
TokenLine(n, gap, lead, trail) ==
    [i \in 1..(lead + (n - 1) * (gap + 1) + 1 + trail) |->
        LET p == i - lead - 1
        IN  IF p >= 0 /\ p % (gap + 1) = 0 /\ p \div (gap + 1) < n
            THEN (IF (p \div (gap + 1)) % 2 = 0 THEN "a" ELSE "b")
            ELSE (IF i % 2 = 0 THEN SP ELSE TAB)]

\* Token counts around every capacity the token array takes.
TokenCounts ==
    { k * SH_TOKEN_BUFFER_SIZE + d : k \in 1..MaxTokGrow, d \in -1..1 }

ManyTokenLines ==
    { TokenLine(n, gap, lead, trail) :
        n \in TokenCounts, gap \in 1..2, lead \in 0..1, trail \in 0..1 }

\* The state in which sh_loop calls sh_split_line(line) in its first
\* iteration, sh_read_line having returned the line l.
StartSplit(l) ==
    /\ stdin = <<>>
    /\ typed = Append(l, NL)
    /\ stdout = << <<"> ">> >>
    /\ stderr = <<>>
    /\ pc = "split_line"
    /\ buffer = Append(l, NUL)
    /\ rl_buffer_size = SH_READ_LINE_BUFFER_SIZE
    /\ rl_position = Len(l)
    /\ line = Append(l, NUL)
    /\ tokens = <<>>
    /\ sl_buffer_size = 0
    /\ sl_position = 0
    /\ token = NULL
    /\ save = <<>>
    /\ args = <<>>
    /\ status = 1
    /\ cwd = <<"/">>
    /\ heap = [line |-> "live", args |-> "none"]
    /\ child = "none"
    /\ child_cwd = <<>>
    /\ child_status = 0
    /\ stops = 0
    /\ stop_pending = FALSE
    /\ wstatus = "none"
    /\ exit_code = -1
    /\ log = <<"prompt">>

InitSplit == \E l \in ShortLines \cup ManyTokenLines : StartSplit(l)

NextSplit ==
    \/ SplitLineAlloc
    \/ SplitLineAllocFail
    \/ SplitToken
    \/ SplitTokenGrow
    \/ SplitTokenGrowFail
    \/ SplitReturn

SpecSplit == InitSplit /\ [][NextSplit]_vars

(* ------------- sh_read_line and sh_split_line, both buffers ------------ *)

\* The long lines of the reader, which then are tokenized, and the lines of
\* the tokenizer.
InitBuffers == InitRead \/ InitSplit

NextBuffers == NextRead \/ NextSplit

SpecBuffers == InitBuffers /\ [][NextBuffers]_vars

(* ------------------------------ properties ----------------------------- *)

\* The greatest element of a non-empty set of integers.
Max(S) == CHOOSE i \in S : \A j \in S : j <= i

\* The entries of the history l behind its last entry e (all when none is e).
After(l, e) ==
    LET at == { i \in 1..Len(l) : l[i] = e }
    IN  IF at = {} THEN l ELSE SubSeq(l, Max(at) + 1, Len(l))

\* What the current iteration of sh_loop did after printing its prompt.
Iteration == After(log, "prompt")

\* What the step did: the entries it added to the history.
Added == SubSeq(log', Len(log) + 1, Len(log'))

Has(l, e) == \E i \in 1..Len(l) : l[i] = e

Count(l, e) == Cardinality({ i \in 1..Len(l) : l[i] = e })

IsHandler(e) == e \in {"sh_cd", "sh_help", "sh_exit", "sh_launch"}

\* The line is empty or made only of delimiter characters.
BlankLine ==
    \A i \in 1..Len(CStr(line)) : CStr(line)[i] \in {" ", "\t", "\r", "\n", BEL}

\* The first token of the argument vector is the word exit.
FirstIsExit == args # <<>> /\ args[1] = <<"e", "x", "i", "t">>

\* C1: sh_execute returns "terminate" (0) exactly when the first token is
\* exit, whatever the arguments behind it; every other return of
\* sh_execute (empty command, cd, help, fork failure, child exited or
\* signaled, also after a failed exec) is "continue" (1).
C1_OnlyExitTerminates ==
    [][ (pc # "free" /\ pc' = "free") =>
            /\ status' \in {0, 1}
            /\ (status' = 0) <=> (pc = "execute" /\ FirstIsExit) ]_vars

C1_Witness ==
    /\ pc = "free"
    /\ status = 0
    /\ Len(args) = 3
    /\ args[2] = <<"x">>

\* C2: the process is ended by the reader at end-of-stream only when no
\* character of the line was read; an unterminated last line is returned.
C2_EofEndsOnlyEmptyLine ==
    (pc = "exited" /\ Has(Iteration, "eof")) => typed = <<>>

\* C3: a read that meets end-of-stream before any character ends the
\* process with status 0, and between the prompt of that read and the end
\* of the process nothing is printed, looked up, forked or changed.
C3_EofOnEmptyLine ==
    [][ /\ (pc = "getchar" /\ stdin = <<>> /\ rl_position = 0) =>
            /\ Iteration = <<>>
            /\ stdout[Len(stdout)] = <<"> ">>
            /\ pc' = "exited"
            /\ exit_code' = 0
            /\ Added = <<"eof">>
            /\ UNCHANGED <<stdout, stderr, child, cwd>>
        /\ pc = "exited" => UNCHANGED <<pc, exit_code, stdout, stderr, log, child>>
      ]_vars

C3_Witness ==
    /\ pc = "exited"
    /\ exit_code = 0
    /\ typed = <<>>
    /\ Iteration = <<"eof">>
    /\ Len(stdout) >= 2

\* C4: for a line that is empty or all delimiters sh_execute looks up
\* nothing, calls no handler, forks nothing, writes nothing and returns
\* "continue", and the loop frees the buffers and goes back to the prompt.
C4_BlankLineIsNoOp ==
    [][ BlankLine =>
            /\ pc = "split_loop" => pc' = "execute"
            /\ pc = "execute" =>
                /\ pc' = "free"
                /\ status' = 1
                /\ UNCHANGED <<log, stdout, stderr, child, cwd>>
            /\ pc = "free" =>
                /\ pc' = "while"
                /\ ~ \E i \in 1..Len(Iteration) :
                        Iteration[i] \in {"strcmp", "fork", "stderr", "stdout"}
                          \/ IsHandler(Iteration[i])
                /\ UNCHANGED <<status, stdout, stderr, child, cwd>>
            /\ pc = "while" => pc' = "prompt" ]_vars

C4_Witness ==
    /\ pc = "prompt"
    /\ BlankLine
    /\ Len(CStr(line)) = 3
    /\ Has(log, "free_line")

\* The handler that the first token names: a built-in when the token is
\* exactly its name, else the launcher.
Named(tok) ==
    IF tok = <<"c", "d">> THEN "sh_cd"
    ELSE IF tok = <<"h", "e", "l", "p">> THEN "sh_help"
    ELSE IF tok = <<"e", "x", "i", "t">> THEN "sh_exit"
    ELSE "sh_launch"

\* C5: for a non-empty argument vector sh_execute calls exactly one
\* handler, the built-in whose name is exactly the first token or else the
\* launcher; a built-in never forks and every other first token forks.
C5_ExactDispatch ==
    [][ (pc = "execute" /\ args[1] # NULL) =>
            /\ SelectSeq(Added, IsHandler) = <<Named(args[1])>>
            /\ Named(args[1]) # "sh_launch" =>
                  /\ ~ Has(Added, "fork")
                  /\ ~ Has(Added, "fork_failed")
                  /\ child' = child
                  /\ pc' = "free"
            /\ Named(args[1]) = "sh_launch" =>
                  \/ Has(Added, "fork") /\ child' = "forked" /\ pc' = "wait"
                  \/ Has(Added, "fork_failed") /\ child' = child /\ pc' = "free"
      ]_vars

C5_Witness ==
    /\ pc = "wait"
    /\ args[1] = <<"c", "d", "x">>
    /\ child = "running"

\* The forked child, or the program it executes, has not terminated.
ChildAlive == child \in {"forked", "exec_failed", "running", "stopped"}

\* C6: after a successful fork the parent leaves sh_launch only when
\* waitpid has reported the child exited or killed by a signal; a report of
\* a stopped child keeps it waiting.  So while a child is alive the shell is
\* in waitpid: it prints no prompt and reads no line.
C6_WaitsForTermination ==
    /\ ChildAlive => pc = "wait"
    /\ (pc # "wait" /\ child # "none") =>
          /\ child \in {"exited", "signaled"}
          /\ wstatus = child
    /\ (pc = "wait" /\ wstatus = "stopped") => Has(Iteration, "program_stop")

C6_Witness ==
    /\ pc = "getchar"
    /\ child = "exited"
    /\ Count(After(log, "fork"), "waitpid") = 3
    /\ Count(After(log, "fork"), "program_stop") = 2

\* C7: when exec fails in the child, the child writes one diagnostic and
\* exits with a non-zero status; the parent's waitpid observes the exit,
\* sh_launch returns "continue", and the shell goes on to the next prompt and
\* read instead of terminating.
C7_ExecFailureContinues ==
    /\ []( Has(Iteration, "child_exec_failed") =>
            /\ pc \in {"wait", "free", "while", "prompt"}
            /\ exit_code = -1
            /\ Count(Iteration, "child_stderr") = 1
            /\ stderr[Len(stderr)] = "sh: exec failed"
            /\ child \in {"exec_failed", "exited"}
            /\ child = "exited" => child_status # 0
            /\ pc # "wait" =>
                  /\ child = "exited"
                  /\ wstatus = "exited"
                  /\ status = 1
                  /\ Count(Iteration, "waitpid") = 1 )
    /\ [][ Has(Iteration, "child_exec_failed") =>
            /\ pc = "while" => pc' = "prompt"
            /\ pc = "prompt" => (pc' = "read_line" /\ stdout' = Append(stdout, <<"> ">>))
         ]_vars

C7_Witness ==
    /\ pc = "getchar"
    /\ Has(log, "child_exec_failed")
    /\ child = "exited"
    /\ child_status = 1
    /\ Len(stdout) = 2

\* C8: when fork fails the parent writes one diagnostic, never calls
\* waitpid, sh_launch returns "continue" and the shell goes on to the next
\* prompt.
C8_ForkFailureContinues ==
    /\ []( Has(Iteration, "fork_failed") =>
            /\ pc \in {"free", "while", "prompt"}
            /\ exit_code = -1
            /\ status = 1
            /\ ~ Has(Iteration, "waitpid")
            /\ ~ Has(Iteration, "fork")
            /\ Count(Iteration, "stderr") = 1
            /\ stderr[Len(stderr)] = "sh: fork failed"
            /\ ~ ChildAlive )
    /\ [][ Has(Iteration, "fork_failed") =>
            /\ UNCHANGED <<child, wstatus>>
            /\ pc = "while" => pc' = "prompt" ]_vars

C8_Witness ==
    /\ pc = "prompt"
    /\ Has(Iteration, "fork_failed")
    /\ child = "none"

\* The maximal runs of non-delimiter characters of the C string s, from
\* left to right.
MaximalRuns(s) ==
    LET delim(i) == s[i] \in {" ", "\t", "\r", "\n", BEL}
        starts == { i \in 1..Len(s) : ~ delim(i) /\ (i = 1 \/ delim(i - 1)) }
        ends == { j \in 1..Len(s) : ~ delim(j) /\ (j = Len(s) \/ delim(j + 1)) }
        start(k) == CHOOSE i \in starts : Cardinality({ j \in starts : j <= i }) = k
        end(k) == CHOOSE i \in ends : Cardinality({ j \in ends : j <= i }) = k
    IN  [k \in 1..Cardinality(starts) |-> SubSeq(s, start(k), end(k))]

\* C9: sh_split_line returns the maximal runs of non-delimiter characters
\* of the line, in order, each non-empty, followed by the NULL sentinel (the
\* sentinel alone for a line of delimiters), also when the tokens fill or
\* exceed the initial capacity of the token array.
C9_TokensAreMaximalRuns ==
    pc = "execute" =>
        /\ args = Append(MaximalRuns(CStr(line)), NULL)
        /\ \A k \in 1..(Len(args) - 1) : args[k] # <<>> /\ args[k] # NULL
        /\ Len(args) = sl_position + 1
        /\ BlankLine => args[1] = NULL

C9_Witness ==
    /\ pc = "execute"
    /\ Len(args) = 2 * SH_TOKEN_BUFFER_SIZE + 1
    /\ sl_buffer_size = 3 * SH_TOKEN_BUFFER_SIZE
    /\ line[1] = TAB
    /\ line[Len(line) - 1] = SP

\* C10: for a newline-terminated line of any length sh_read_line returns
\* the characters before the newline, unchanged and in order, followed by the
\* terminating NUL, and leaves what follows the newline on standard input.
C10_LineReadInFull ==
    pc = "split_line" =>
        /\ typed # <<>>
        /\ typed[Len(typed)] = NL
        /\ rl_position = Len(typed) - 1
        /\ line = Append(PatternLine(rl_position), NUL)
        /\ stdin = <<"x", NL>>

C10_Witness ==
    /\ pc = "split_line"
    /\ rl_position = SH_READ_LINE_BUFFER_SIZE
    /\ rl_buffer_size = 2 * SH_READ_LINE_BUFFER_SIZE

\* The first token of the argument vector is the word cd.
FirstIsCd == args # <<>> /\ args[1] = <<"c", "d">>

\* C11: cd without an argument writes exactly one diagnostic line to the
\* error stream and does not call chdir; cd with an argument calls chdir on
\* the first argument only: on success the working directory is that
\* argument and nothing is written, on failure one system error line is
\* written and the directory stays.  Each case returns "continue".
C11_ChangeDirectory ==
    [][ (pc = "execute" /\ FirstIsCd) =>
            /\ status' = 1
            /\ pc' = "free"
            /\ stdout' = stdout
            /\ args[2] = NULL =>
                  /\ stderr' = Append(stderr, "sh: expected argument to \"cd\"")
                  /\ ~ Has(Added, "chdir")
                  /\ cwd' = cwd
            /\ args[2] # NULL =>
                  /\ Count(Added, "chdir") = 1
                  /\ \/ cwd' = args[2] /\ stderr' = stderr
                     \/ /\ cwd' = cwd
                        /\ stderr' = Append(stderr, "sh: chdir failed")
      ]_vars

C11_Witness ==
    /\ pc = "free"
    /\ FirstIsCd
    /\ Len(args) = 4
    /\ cwd = <<"d">>
    /\ stderr = <<>>
    /\ stdout = << <<"> ">> >>

\* The diagnostic lines the shell and its child wrote in these entries.
Diagnostics(l) == Count(l, "stderr") + Count(l, "child_stderr")

\* The command of the current iteration failed in a recoverable way: cd
\* without an argument, chdir failed, fork failed, execvp failed in the child.
RecoverableFailure ==
    \E it \in {Iteration} :
        \/ Has(it, "sh_cd") /\ args[2] = NULL
        \/ Has(it, "chdir_failed")
        \/ Has(it, "fork_failed")
        \/ Has(it, "child_exec_failed")

FatalFailure == Has(Iteration, "malloc_failed")

\* C12: the error stream holds exactly the diagnostics of the shell and of
\* its child; an iteration with a recoverable failure has written exactly
\* one of them, the process goes on, and the iteration is always left, by
\* the step that prints the prompt again; an iteration with a fatal failure has written exactly one and the process
\* has ended with EXIT_FAILURE; an iteration without failure has written none.
C12_OneDiagnosticPerFailure ==
    /\ [](Len(stderr) = Diagnostics(log))
    /\ [](RecoverableFailure =>
            /\ Diagnostics(Iteration) = 1
            /\ exit_code = -1
            /\ pc \in {"wait", "free", "while", "prompt"}
            /\ pc \in {"free", "while", "prompt"} => status = 1)
    /\ [](FatalFailure =>
            /\ Diagnostics(Iteration) = 1
            /\ pc = "exited"
            /\ exit_code = EXIT_FAILURE)
    /\ []((~ RecoverableFailure /\ ~ FatalFailure) => Diagnostics(Iteration) = 0)
    /\ [][ (RecoverableFailure /\ ~ RecoverableFailure') =>
              (Added = <<"prompt">> /\ stdout' = Append(stdout, <<"> ">>)) ]_vars
    /\ []<>(~ RecoverableFailure)

C12_Witness ==
    /\ Has(log, "chdir_failed")
    /\ Has(log, "child_exec_failed")
    /\ Len(stderr) = 2
    /\ Count(log, "prompt") = 3

\* C13: a failed malloc or realloc of the line buffer or of the token array
\* writes the allocation diagnostic and ends the process at once with a
\* non-zero status: it is the last thing the process does (no second
\* allocation, no prompt, no step at all follows), and the iteration it
\* happens in has called no handler and forked no child.
C13_AllocationFailureIsFatal ==
    /\ [][ Has(Added, "malloc_failed") =>
              /\ pc \in {"read_line", "getchar", "split_line", "split_loop"}
              /\ stderr' = Append(stderr, "sh: allocation error")
              /\ stdout' = stdout
              /\ pc' = "exited"
              /\ exit_code' # 0
         ]_vars
    /\ [](Has(log, "malloc_failed") =>
              /\ Count(log, "malloc_failed") = 1
              /\ SubSeq(log, Len(log) - 1, Len(log)) = <<"malloc_failed", "stderr">>
              /\ pc = "exited"
              /\ exit_code # 0
              /\ ~ ChildAlive
              /\ \A i \in 1..Len(Iteration) :
                    /\ ~ IsHandler(Iteration[i])
                    /\ Iteration[i] \notin {"strcmp", "fork", "prompt"})
    /\ [][ ~ Has(log, "malloc_failed") ]_vars

C13_Witness ==
    /\ Has(log, "malloc_failed")
    /\ sl_buffer_size = 2 * SH_TOKEN_BUFFER_SIZE
    /\ Count(log, "prompt") = 2
    /\ pc = "exited"

\* The first token of the argument vector is the word help.
FirstIsHelp == args # <<>> /\ args[1] = <<"h", "e", "l", "p">>

\* The names of the built-ins in the text: the pieces that printf("  %s\n")
\* wrote, without the two blanks, in the order written.
NamesIn(text) ==
    LET at == { i \in 1..Len(text) : SubSeq(text[i], 1, 1) = <<"  ">> }
        nth(k) == CHOOSE i \in at : Cardinality({ j \in at : j < i }) = k - 1
    IN  [k \in 1..Cardinality(at) |-> Tail(text[nth(k)])]

\* C14: with help as the first token, whatever follows it, sh_execute writes
\* the help text to standard output and nothing to the error stream; the
\* text names cd, help and exit, in the order of registration; the working
\* directory, the input, the heap and the children are as before; the
\* return value is "continue".
C14_HelpListsBuiltins ==
    [][ (pc = "execute" /\ FirstIsHelp) =>
            /\ Len(stdout') > Len(stdout)
            /\ SubSeq(stdout', 1, Len(stdout)) = stdout
            /\ NamesIn(SubSeq(stdout', Len(stdout) + 1, Len(stdout')))
                   = << <<"c", "d">>, <<"h", "e", "l", "p">>, <<"e", "x", "i", "t">> >>
            /\ stderr' = stderr
            /\ UNCHANGED <<cwd, stdin, heap, child_vars, exit_code, args, line>>
            /\ status' = 1
            /\ pc' = "free"
      ]_vars

C14_Witness ==
    /\ pc = "free"
    /\ FirstIsHelp
    /\ args[2] = <<"c", "d">>
    /\ Len(stdout) = 1 + Len(HelpText)
    /\ stderr = <<>>
    /\ cwd = <<"/">>

\* A handler has returned "terminate": the loop is STOPPED.
Stopped == Has(log, "sh_exit")

\* C15: once a handler has returned "terminate" the shell prints nothing,
\* reads no character, looks up and dispatches nothing and forks nothing:
\* it releases the line, leaves the loop and ends through main with status
\* 0, and that is the only way it ends through main.  While the loop runs,
\* the prompt is printed exactly when a read follows: sh_read_line is
\* entered only by the step that prints the prompt, and input is consumed
\* only inside sh_read_line.
C15_StoppedIsTerminal ==
    /\ [][ Stopped =>
              /\ Added \in {<<>>, <<"free_line", "free_args">>}
              /\ UNCHANGED <<stdin, stdout, stderr, cwd, child_vars, args, status>>
              /\ pc' \in {"while", "done"}
         ]_vars
    /\ [](Stopped =>
              /\ status = 0
              /\ pc \in {"free", "while", "done"}
              /\ exit_code \in {-1, EXIT_SUCCESS})
    /\ [](pc = "done" => (Stopped /\ exit_code = EXIT_SUCCESS))
    /\ []<>(Stopped => (pc = "done" /\ exit_code = EXIT_SUCCESS))
    /\ [][ pc' = "read_line" =>
              (pc = "prompt" /\ stdout' = Append(stdout, <<"> ">>)) ]_vars
    /\ [][ pc = "prompt" => pc' = "read_line" ]_vars
    /\ [][ pc = "read_line" => pc' \in {"getchar", "exited"} ]_vars
    /\ [][ pc' = "getchar" => pc \in {"read_line", "getchar"} ]_vars
    /\ [][ (stdin' # stdin \/ stdout' # stdout) =>
              (pc \in {"getchar", "prompt", "execute"} /\ status # 0) ]_vars

C15_Witness ==
    /\ pc = "done"
    /\ exit_code = EXIT_SUCCESS
    /\ Count(log, "prompt") = 1
    /\ Len(stdin) >= 3
    /\ stdout = << <<"> ">> >>

\* The iteration is over: the loop condition is being tested, the loop has
\* ended, or the process has ended inside the iteration.
IterationOver == pc \in {"while", "done", "exited"}

\* C16 as stated: whatever the outcome of an iteration (continue, terminate,
\* end of input, launch failure; allocation failures apart), when it is
\* over the line buffer and the token array it allocated are released.
C16_ReleasedWhateverTheOutcome ==
    (IterationOver /\ ~ Has(log, "malloc_failed")) =>
        (heap.line # "live" /\ heap.args # "live")

\* C16, amended: an iteration that reaches its end (continue, terminate,
\* launch failure) has released the line buffer and the token array, each
\* exactly once and never twice; the handlers, the launcher and the forked
\* child read the argument vector only while both blocks are allocated; an
\* iteration that ends the process at end of input releases nothing: the
\* line buffer is still allocated when the process ends.
C16_ReleasedAtEndOfIteration ==
    /\ heap.line # "double_free"
    /\ heap.args # "double_free"
    /\ pc \in {"while", "done"} =>
          /\ heap = [line |-> "freed", args |-> "freed"]
          /\ Count(Iteration, "free_line") = 1
          /\ Count(Iteration, "free_args") = 1
    /\ pc \in {"execute", "wait", "free"} =>
          /\ heap = [line |-> "live", args |-> "live"]
          /\ ~ Has(Iteration, "free_line")
          /\ ~ Has(Iteration, "free_args")
    /\ child = "forked" => heap = [line |-> "live", args |-> "live"]
    /\ Has(Iteration, "eof") =>
          /\ pc = "exited"
          /\ heap.line = "live"
          /\ heap.args # "live"
          /\ ~ Has(Iteration, "free_line")

C16_Witness ==
    /\ pc = "while"
    /\ Has(Iteration, "fork_failed")
    /\ Count(log, "free_line") = 2
    /\ heap = [line |-> "freed", args |-> "freed"]

\* The child runs the code of sh_launch: between fork and execvp, or
\* between the failed execvp and exit.
ChildInLaunch == child \in {"forked", "exec_failed"}

\* The step prints the prompt, consumes input, or looks up or calls a handler.
LoopStep ==
    \/ stdout' # stdout
    \/ stdin' # stdin
    \/ \E i \in 1..Len(Added) :
          IsHandler(Added[i]) \/ Added[i] \in {"prompt", "strcmp", "fork", "eof"}

CapacityAt(position, increment) == increment * ((position \div increment) + 1)

\* C18: in sh_read_line the cell to be written next, for a character or
\* for the terminating NUL, is below the capacity of the buffer, and in
\* sh_split_line the cell for the next token or for the NULL sentinel is
\* below the capacity of the array; each write fills that cell and leaves
\* the cells before it; the capacity is the initial one (1024 characters, 64
\* tokens) plus one increment of the same size for each time the position
\* reached it.
C18_WritesWithinCapacity ==
    /\ [](pc = "getchar" =>
              /\ Len(buffer) = rl_position
              /\ rl_position < rl_buffer_size
              /\ rl_buffer_size = CapacityAt(rl_position, SH_READ_LINE_BUFFER_SIZE))
    /\ [][ (pc = "getchar" /\ buffer' # buffer /\ pc' # "exited") =>
              /\ Len(buffer') = rl_position + 1
              /\ Len(buffer') <= rl_buffer_size
              /\ SubSeq(buffer', 1, rl_position) = buffer
              /\ buffer'[rl_position + 1] = IF Head(stdin) = NL THEN NUL ELSE Head(stdin)
         ]_vars
    /\ [](pc = "split_loop" =>
              /\ Len(tokens) = sl_position
              /\ sl_position < sl_buffer_size
              /\ sl_buffer_size = CapacityAt(sl_position, SH_TOKEN_BUFFER_SIZE))
    /\ [][ (pc = "split_loop" /\ tokens' # tokens /\ pc' # "exited") =>
              /\ Len(tokens') = sl_position + 1
              /\ Len(tokens') <= sl_buffer_size
              /\ SubSeq(tokens', 1, sl_position) = tokens
              /\ tokens'[sl_position + 1] = token
         ]_vars
    /\ [](pc = "split_line" => Len(line) <= rl_buffer_size)
    /\ [](pc = "execute" => Len(args) <= sl_buffer_size)

C18_Witness ==
    /\ pc = "split_line"
    /\ rl_buffer_size = 2 * SH_READ_LINE_BUFFER_SIZE
    /\ Len(line) = rl_buffer_size
    /\ line[Len(line)] = NUL

\* C19: a step changes the working directory of the shell only when it is
\* sh_cd called with a first argument and chdir succeeds, and then the new
\* directory is that argument; nothing is written.  So cd without
\* argument, a failed chdir, help, exit, an empty command and every step of
\* a launch, of the child and of the launched program (which may change its
\* own directory) leave it as it was.
C19_OnlyCdChangesDirectory ==
    /\ [][ cwd' # cwd =>
              /\ pc = "execute"
              /\ FirstIsCd
              /\ args[2] # NULL
              /\ cwd' = args[2]
              /\ Count(Added, "chdir") = 1
              /\ ~ Has(Added, "chdir_failed")
              /\ stderr' = stderr
         ]_vars
    /\ [][ (\/ pc # "execute"
            \/ ~ FirstIsCd
            \/ args[2] = NULL
            \/ Has(Added, "chdir_failed")) => cwd' = cwd ]_vars
    /\ [][ child_cwd' # child_cwd => cwd' = cwd ]_vars

C19_Witness ==
    /\ child = "running"
    /\ child_cwd = ProgramDir
    /\ cwd = <<"d">>
    /\ pc = "wait"

\* The shell process has ended, by exit() or by the return of main.
Terminated == pc \in {"exited", "done"}

\* The launched program is running or stopped.
ProgramAlive == child \in {"running", "stopped"}

\* C20: the input being finite, if every launched program eventually exits
\* or is killed by a signal (again and again no launched program is alive)
\* then the shell eventually terminates and stays terminated; when no
\* allocation failed it has terminated with status 0, after exit was
\* dispatched or a read met the end of the input.  A shell that has not
\* terminated and has no step to take is in waitpid with a live child, and
\* a shell that never terminates stays in waitpid for ever with a launched
\* program that never ends.
C20_ShellTerminates ==
    /\ []<>(~ ProgramAlive) => <>[]Terminated
    /\ [](Terminated =>
              /\ stdin = <<>> \/ Has(Iteration, "sh_exit") \/ Has(log, "malloc_failed")
              /\ ~ Has(log, "malloc_failed") =>
                    /\ exit_code = EXIT_SUCCESS
                    /\ Has(Iteration, "sh_exit") \/ Has(Iteration, "eof")
                    /\ Has(Iteration, "sh_exit") <=> pc = "done"
              /\ Has(log, "malloc_failed") => exit_code = EXIT_FAILURE)
    /\ []((~ Terminated /\ ~ ENABLED ShellNext) => (pc = "wait" /\ ChildAlive))
    /\ <>[](~ Terminated) => <>[](pc = "wait" /\ ProgramAlive)

C20_Witness ==
    /\ pc = "exited"
    /\ exit_code = EXIT_SUCCESS
    /\ Has(log, "program_stop")
    /\ Has(log, "program_killed")
    /\ Has(Iteration, "eof")
    /\ Count(log, "prompt") = 2

====
